---- MODULE Spec2Model ----
(***************************************************************************)
(* Model of src/app/routes.py of almanac.httparchive.org: the outline walk *)
(* get_chapter_nextprev, the after_request cache policy add_header, the    *)
(* route handlers and the error handlers.                                  *)
(***************************************************************************)
EXTENDS Integers, Sequences, FiniteSets, TLC

\* ------------------------------------------------------------------------
\* Bounds of the outline walk
\* ------------------------------------------------------------------------
MaxParts == 2
MaxChapters == 3
NumSlugs == 3

SlugNames == <<"a", "b", "c", "d", "e", "f">>
Slugs == {SlugNames[i] : i \in 1..NumSlugs}
\* a slug no chapter of any outline carries
AbsentSlug == "zz"

\* A chapter dict: its slug, and whether the key 'todo' is present in it.
Chapters == [slug : Slugs, todo : BOOLEAN]

\* Python's None for prev_chapter / next_chapter: the empty option.
None == << >>
Some(c) == <<c>>

VARIABLES
    \* locals of one invocation of get_chapter_nextprev
    outline,        \* config['outline']: sequence of parts, a part is its 'chapters' sequence
    chapter_slug,   \* the target slug
    prev_chapter,
    next_chapter,
    found,
    part_i,         \* position of the outer for loop
    chapter_i,      \* position of the inner for loop
    nav_pc,         \* "idle", "inner", "after_inner", "done"
    visited,        \* history: the <<part, chapter>> positions the walk examined
    \* add_header as a function of a response
    resp_in,        \* a response handed to add_header
    resp_once,      \* add_header(resp_in)
    resp_twice,     \* add_header(add_header(resp_in))
    cache_pc,       \* "idle", "start", "once", "twice"
    \* the requests in flight, one per worker thread
    request,        \* thread -> [path, accept_language]
    endpoint,       \* thread -> name of the matched view function
    view_args,      \* thread -> [lang, year, chapter]
    pc,             \* thread -> position of the request
    error,          \* thread -> status code of the raised HTTP exception, 0 if none
    response,       \* thread -> the response object
    rendered,       \* thread -> the render_template calls made, in order
    log,            \* thread -> the logging.exception calls made, in order
    cfg,            \* thread -> local "config": the year whose Configuration it refers to
    contributors_list, \* thread -> local contributors_list / sorted_contributors
    validated,      \* history: thread -> the lang the validate decorator was given, if it ran
    config          \* the loader's Configuration objects, by year

navVars == <<outline, chapter_slug, prev_chapter, next_chapter, found,
             part_i, chapter_i, nav_pc, visited>>

cacheVars == <<resp_in, resp_once, resp_twice, cache_pc>>

reqVars == <<request, endpoint, view_args, pc, error, response, rendered, log,
             cfg, contributors_list, validated, config>>

vars == <<navVars, cacheVars, reqVars>>

\* ------------------------------------------------------------------------
\* get_chapter_nextprev, routes.py lines 108-125
\* ------------------------------------------------------------------------
RECURSIVE Flatten(_)
Flatten(o) == IF o = << >> THEN << >> ELSE Head(o) \o Flatten(Tail(o))

\* the outline that cuts a flat chapter sequence into Len(cuts) parts, part j
\* ending at position cuts[j] (parts may be empty)
OutlineOf(flat, cuts) ==
    [j \in DOMAIN cuts |-> SubSeq(flat, (IF j = 1 THEN 0 ELSE cuts[j - 1]) + 1, cuts[j])]

IsCutting(cuts, n) ==
    /\ \A j \in DOMAIN cuts : j > 1 => cuts[j - 1] <= cuts[j]
    /\ IF cuts = << >> THEN n = 0 ELSE cuts[Len(cuts)] = n

\* truthiness of "next_chapter" in "if found and next_chapter": None is
\* falsy, a chapter dict that has a slug is a non-empty dict, hence truthy
Truthy(opt) == opt # None

\* the walk touches only its own locals
NavFrame == UNCHANGED <<cacheVars, reqVars>>

\* line 113: for part in config['outline'], entering the part at position i
\* of outline o or leaving the loop for the return of line 125
EnterPart(o, i) ==
    /\ part_i' = i
    /\ IF i <= Len(o)
       THEN /\ nav_pc' = "inner"
            /\ chapter_i' = 1
       ELSE /\ nav_pc' = "done"
            /\ UNCHANGED chapter_i

\* lines 109-113: the locals, and the first part
NavStart(o, slug) ==
    /\ outline' = o
    /\ chapter_slug' = slug
    /\ prev_chapter' = None
    /\ next_chapter' = None
    /\ found' = FALSE
    /\ visited' = {}
    /\ part_i' = 1
    /\ chapter_i' = 1
    /\ nav_pc' = IF Len(o) >= 1 THEN "inner" ELSE "done"

CurChapter == outline[part_i][chapter_i]

InInner == nav_pc = "inner" /\ chapter_i <= Len(outline[part_i])

Advance ==
    /\ NavFrame
    /\ chapter_i' = chapter_i + 1
    /\ visited' = visited \cup {<<part_i, chapter_i>>}
    /\ UNCHANGED <<outline, chapter_slug, part_i, nav_pc>>

\* lines 115-117: if found and 'todo' not in chapter: next_chapter = chapter; break
NavNext ==
    /\ NavFrame
    /\ InInner
    /\ found /\ ~CurChapter.todo
    /\ next_chapter' = Some(CurChapter)
    /\ nav_pc' = "after_inner"
    /\ visited' = visited \cup {<<part_i, chapter_i>>}
    /\ UNCHANGED <<outline, chapter_slug, prev_chapter, found, part_i, chapter_i>>

\* lines 118-119 without the test for 'todo'
NavMatchTodo ==
    /\ InInner
    /\ ~(found /\ ~CurChapter.todo)
    /\ CurChapter.slug = chapter_slug
    /\ found' = TRUE
    /\ Advance
    /\ UNCHANGED <<prev_chapter, next_chapter>>

\* lines 118-119: elif chapter.get('slug') == chapter_slug and 'todo' not in chapter
NavMatch ==
    /\ InInner
    /\ ~(found /\ ~CurChapter.todo)
    /\ CurChapter.slug = chapter_slug /\ ~CurChapter.todo
    /\ found' = TRUE
    /\ Advance
    /\ UNCHANGED <<prev_chapter, next_chapter>>

\* lines 120-121 as a plain "else": a todo chapter becomes prev_chapter
NavPrevAnyChapter ==
    /\ InInner
    /\ ~(found /\ ~CurChapter.todo)
    /\ ~(CurChapter.slug = chapter_slug /\ ~CurChapter.todo)
    /\ prev_chapter' = Some(CurChapter)
    /\ Advance
    /\ UNCHANGED <<next_chapter, found>>

\* lines 120-121 keeping the first candidate instead of the last one
NavPrevKeepFirst ==
    /\ InInner
    /\ ~(found /\ ~CurChapter.todo)
    /\ ~(CurChapter.slug = chapter_slug /\ ~CurChapter.todo)
    /\ ~CurChapter.todo
    /\ prev_chapter' = IF prev_chapter = None THEN Some(CurChapter) ELSE prev_chapter
    /\ Advance
    /\ UNCHANGED <<next_chapter, found>>

\* lines 120-121: elif 'todo' not in chapter: prev_chapter = chapter
NavPrev ==
    /\ InInner
    /\ ~(found /\ ~CurChapter.todo)
    /\ ~(CurChapter.slug = chapter_slug /\ ~CurChapter.todo)
    /\ ~CurChapter.todo
    /\ prev_chapter' = Some(CurChapter)
    /\ Advance
    /\ UNCHANGED <<next_chapter, found>>

\* no branch of lines 115-121 applies: the chapter has the key 'todo'
NavSkip ==
    /\ InInner
    /\ CurChapter.todo
    /\ Advance
    /\ UNCHANGED <<prev_chapter, next_chapter, found>>

\* lines 122-123, then the next part: if found and next_chapter: break
AfterPart ==
    IF found /\ Truthy(next_chapter)
    THEN /\ nav_pc' = "done"
         /\ UNCHANGED <<part_i, chapter_i>>
    ELSE EnterPart(outline, part_i + 1)

\* line 114: the inner for loop is exhausted; lines 122-123
NavInnerEnd ==
    /\ NavFrame
    /\ nav_pc = "inner"
    /\ chapter_i > Len(outline[part_i])
    /\ AfterPart
    /\ UNCHANGED <<outline, chapter_slug, prev_chapter, next_chapter, found, visited>>

\* lines 122-123 left out: the outer loop never breaks
NavAfterInnerNoBreak ==
    /\ NavFrame
    /\ nav_pc = "after_inner"
    /\ EnterPart(outline, part_i + 1)
    /\ UNCHANGED <<outline, chapter_slug, prev_chapter, next_chapter, found, visited>>

\* lines 122-123 after the break of line 117; line 125: return
NavAfterInner ==
    /\ NavFrame
    /\ nav_pc = "after_inner"
    /\ AfterPart
    /\ UNCHANGED <<outline, chapter_slug, prev_chapter, next_chapter, found, visited>>

NavStep ==
    \/ NavNext
    \/ NavMatch
    \/ NavPrev
    \/ NavSkip
    \/ NavInnerEnd
    \/ NavAfterInner

\* ------------------------------------------------------------------------
\* Responses and their headers
\* ------------------------------------------------------------------------
\* response.headers is a list of <<name, value>> pairs; a value is a
\* sequence of tokens: the directives of Cache-Control, the segments of the
\* path in Location.
Range(s) == {s[i] : i \in DOMAIN s}

HasHeader(h, name) == \E i \in DOMAIN h : h[i][1] = name

GetHeader(h, name) ==
    IF HasHeader(h, name)
    THEN h[CHOOSE i \in DOMAIN h : h[i][1] = name /\ \A j \in 1..(i - 1) : h[j][1] # name][2]
    ELSE << >>

RECURSIVE RemoveHeader(_, _)
RemoveHeader(h, name) ==
    IF h = << >> THEN << >>
    ELSE IF Head(h)[1] = name THEN RemoveHeader(Tail(h), name)
    ELSE <<Head(h)>> \o RemoveHeader(Tail(h), name)

\* headers[name] = value: replaces the first entry of that name, drops the
\* others, appends when there is none
SetHeader(h, name, value) ==
    IF HasHeader(h, name)
    THEN LET i == CHOOSE k \in DOMAIN h : h[k][1] = name /\ \A j \in 1..(k - 1) : h[j][1] # name
         IN  SubSeq(h, 1, i - 1) \o <<<<name, value>>>> \o RemoveHeader(SubSeq(h, i + 1, Len(h)), name)
    ELSE Append(h, <<name, value>>)

\* headers.add(name, value)
AddHeader(h, name, value) == Append(h, <<name, value>>)

MaxAgeTokens == {"max-age=0", "max-age=10800", "max-age=43200"}

\* response.cache_control.<flag> = True
SetFlag(cc, flag) == IF flag \in Range(cc) THEN cc ELSE Append(cc, flag)

\* response.cache_control.max_age = n
SetMaxAge(cc, token) ==
    IF \E i \in DOMAIN cc : cc[i] \in MaxAgeTokens
    THEN [i \in DOMAIN cc |-> IF cc[i] \in MaxAgeTokens THEN token ELSE cc[i]]
    ELSE Append(cc, token)

CacheControl(resp) == GetHeader(resp.headers, "Cache-Control")

\* writing through response.cache_control updates the header
WithCacheControl(resp, cc) ==
    [resp EXCEPT !.headers = SetHeader(@, "Cache-Control", cc)]

NoStoreNoCache(resp) ==
    WithCacheControl(resp,
        SetMaxAge(SetFlag(SetFlag(CacheControl(resp), "no-store"), "no-cache"), "max-age=0"))

PublicMaxAge(resp) ==
    WithCacheControl(resp, SetMaxAge(SetFlag(CacheControl(resp), "public"), "max-age=10800"))

\* add_header with "or" for "and" in line 20: every response is a bad one
add_header_or(resp) ==
    IF ~HasHeader(resp.headers, "Cache-Control")
    THEN LET r1 == IF resp.status_code # 200 \/ resp.status_code # 304
                   THEN NoStoreNoCache(resp) ELSE resp
         IN  IF r1.status_code = 200 \/ r1.status_code = 304
             THEN PublicMaxAge(r1) ELSE r1
    ELSE resp

\* add_header without the guard of line 19, adding a header each time
add_header_add(resp) ==
    IF resp.status_code # 200 /\ resp.status_code # 304
    THEN [resp EXCEPT !.headers = AddHeader(@, "Cache-Control", <<"no-store", "no-cache", "max-age=0">>)]
    ELSE [resp EXCEPT !.headers = AddHeader(@, "Cache-Control", <<"public", "max-age=10800">>)]

\* add_header caching every response that has no Cache-Control
add_header_public(resp) ==
    IF ~HasHeader(resp.headers, "Cache-Control") THEN PublicMaxAge(resp) ELSE resp

\* add_header, routes.py lines 10-27
add_header(resp) ==
    IF ~HasHeader(resp.headers, "Cache-Control")
    THEN LET r1 == IF resp.status_code # 200 /\ resp.status_code # 304
                   THEN NoStoreNoCache(resp) ELSE resp
         IN  IF r1.status_code = 200 \/ r1.status_code = 304
             THEN PublicMaxAge(r1) ELSE r1
    ELSE resp

StatusCodes == {200, 304, 301, 302, 400, 404, 500, 502}

PresetCacheControls ==
    {<<"private">>, <<"public", "max-age=43200">>, <<"no-store">>, <<"max-age=0">>,
     <<"public", "max-age=10800">>}

OtherHeaders == {<< >>, <<<<"Vary", <<"Accept-Language">>>>>>}

\* the responses add_header is applied to
Responses ==
    {[status_code |-> st, headers |-> h, body |-> << >>] :
        st \in StatusCodes,
        h \in OtherHeaders
              \cup {Append(o, <<"Cache-Control", cc>>) : o \in OtherHeaders, cc \in PresetCacheControls}
              \cup {<<<<"Cache-Control", cc>>>> \o o : o \in OtherHeaders, cc \in PresetCacheControls}}

NoResponse == [status_code |-> 0, headers |-> << >>, body |-> << >>]

ApplyOnce ==
    /\ UNCHANGED <<navVars, reqVars>>
    /\ cache_pc = "start"
    /\ resp_once' = add_header(resp_in)
    /\ cache_pc' = "once"
    /\ UNCHANGED <<resp_in, resp_twice>>

ApplyTwice ==
    /\ UNCHANGED <<navVars, reqVars>>
    /\ cache_pc = "once"
    /\ resp_twice' = add_header(resp_once)
    /\ cache_pc' = "twice"
    /\ UNCHANGED <<resp_in, resp_once>>

\* ------------------------------------------------------------------------
\* Requests, configuration and the collaborators of routes.py
\* ------------------------------------------------------------------------
NumThreads == 2
NumContributors == 3

Threads == 1..NumThreads

\* an absent URL argument, Python's None
NoArg == "-"

SupportedLangs == {"en", "ja"}
DefaultLang == "en"
Langs == SupportedLangs \cup {"xx"}

SupportedYears == {"2019", "2020"}
DEFAULT_YEAR == "2019"
Years == SupportedYears \cup {"1999"}

ContributorIds == 1..NumContributors

\* the 'name' of a contributor record, as its rank in alphabetical order;
\* two contributors share a name
ContributorName(id) == (NumContributors - id) \div 2

\* the Configuration documents the loader holds; 'contributors' is a dict,
\* kept as the sequence of its keys in insertion order
Config0 ==
    [y \in SupportedYears |->
        [outline |-> IF y = "2019"
                     THEN << <<[slug |-> "a", todo |-> FALSE], [slug |-> "b", todo |-> TRUE]>>,
                             <<[slug |-> "c", todo |-> FALSE]>> >>
                     ELSE << <<[slug |-> "a", todo |-> FALSE], [slug |-> "b", todo |-> FALSE]>> >>,
         contributors |-> [i \in ContributorIds |-> i]]]

\* get_config(year): the loader returns its Configuration object for the
\* year, the same object to every request
get_config(year) == year

PageNames == {"table-of-contents", "contributors", "methodology", "ebook"}
ChapterSlugs == {"a", "b", AbsentSlug}

\* request paths, as the segments after the leading slash; a last segment
\* "" is a trailing slash
Paths ==
    {<<"">>, <<"sitemap.xml">>, <<"robots.txt">>, <<"favicon.ico">>, <<"nope">>,
     <<"static", "images", "2019", "07_chart", "fig1.png">>}
    \cup {<<l, "">> : l \in Langs}
    \cup {<<l, "accessibility-statement">> : l \in Langs}
    \cup {<<l, "accessibility-statement", "">> : l \in Langs}
    \cup {<<l, y, "">> : l \in Langs, y \in Years}
    \cup {<<l, y, n>> : l \in Langs, y \in Years, n \in PageNames \cup ChapterSlugs}
    \cup {<<l, y, n, "">> : l \in Langs, y \in Years, n \in ChapterSlugs}

AcceptLanguages == {NoArg, "ja", "xx"}

Requests == [path : Paths, accept_language : AcceptLanguages]

NoRequest == [path |-> << >>, accept_language |-> NoArg]
NoViewArgs == [lang |-> NoArg, year |-> NoArg, chapter |-> << >>]

Last(s) == s[Len(s)]

\* the URL map built by the app.route decorators
Route(path) ==
    IF path = <<"">> THEN "root"
    ELSE IF Len(path) = 1 THEN
        (IF path[1] = "sitemap.xml" THEN "sitemap"
         ELSE IF path[1] = "robots.txt" THEN "static_from_root"
         ELSE IF path[1] = "favicon.ico" THEN "default_favicon"
         ELSE "catch_all")
    ELSE IF Len(path) >= 2 /\ path[2] = "accessibility-statement"
            /\ (Len(path) = 2 \/ (Len(path) = 3 /\ path[3] = ""))
         THEN "accessibility_statement"
    ELSE IF Len(path) = 2 THEN (IF path[2] = "" THEN "lang_only" ELSE "catch_all")
    ELSE IF Len(path) = 3 /\ path[3] = "" THEN "home"
    ELSE IF Len(path) = 3 /\ path[3] = "table-of-contents" THEN "table_of_contents"
    ELSE IF Len(path) = 3 /\ path[3] = "contributors" THEN "contributors"
    ELSE IF Len(path) = 3 /\ path[3] = "methodology" THEN "methodology"
    ELSE IF Len(path) = 3 /\ path[3] = "ebook" THEN "ebook"
    ELSE IF Len(path) = 5 /\ SubSeq(path, 1, 3) = <<"static", "images", "2019">>
         THEN "redirect_old_images"
    ELSE "chapter"

RouteArgs(path) ==
    LET ep == Route(path)
    IN  IF ep \in {"lang_only", "accessibility_statement"}
        THEN [NoViewArgs EXCEPT !.lang = path[1]]
        ELSE IF ep \in {"home", "table_of_contents", "contributors", "methodology", "ebook"}
        THEN [NoViewArgs EXCEPT !.lang = path[1], !.year = path[2]]
        ELSE IF ep = "chapter"
        THEN [lang |-> path[1], year |-> path[2], chapter |-> SubSeq(path, 3, Len(path))]
        ELSE NoViewArgs

\* the view functions under the validate decorator
Validated ==
    {"home", "lang_only", "root", "table_of_contents", "contributors", "methodology",
     "accessibility_statement", "chapter", "ebook"}

\* redirect(location, code) of Flask
redirect(location, code) ==
    [status_code |-> code, headers |-> <<<<"Location", location>>>>, body |-> << >>]

\* url_for('home', lang=lang, year=year)
url_for_home(lang, year) == <<lang, year, "">>

\* convert_old_image_path(folder) of helpers: drops the numeric prefix
convert_old_image_path(folder) == IF folder = "07_chart" THEN "chart" ELSE folder

\* render_error_template(error, status_code) of helpers
render_error_template(code) ==
    [status_code |-> code, headers |-> << >>, body |-> <<"error.html">>]

Goto(t, p) == pc' = [pc EXCEPT ![t] = p]

Respond(t, resp) ==
    /\ response' = [response EXCEPT ![t] = resp]
    /\ Goto(t, "after_request")
    /\ UNCHANGED error

\* abort(code), or an exception the framework turns into the status code
Abort(t, code) ==
    /\ error' = [error EXCEPT ![t] = code]
    /\ Goto(t, "error")
    /\ UNCHANGED response

NoContext == [contributors |-> << >>, prev_chapter |-> None, next_chapter |-> None]

\* render_template(template, **context) of helpers: returns the markup of a
\* 200 response, or fails when the template does not exist
render_template(t, template, context, headers) ==
    /\ rendered' = [rendered EXCEPT
                       ![t] = Append(@, [template |-> template, context |-> context])]
    /\ \E exists \in BOOLEAN :
          IF exists
          THEN Respond(t, [status_code |-> 200, headers |-> headers, body |-> template])
          ELSE Abort(t, 500)

\* what an action of the request pipeline leaves alone besides the
\* variables it names
Frame(unchanged) ==
    /\ UNCHANGED unchanged
    /\ UNCHANGED <<request, validated, cacheVars>>

NavIdle == UNCHANGED navVars

\* ------------------------------------------------------------------------
\* Request dispatch and the validate decorator
\* ------------------------------------------------------------------------
\* URL matching of the framework
Dispatch(t) ==
    /\ pc[t] = "dispatch"
    /\ endpoint' = [endpoint EXCEPT ![t] = Route(request[t].path)]
    /\ view_args' = [view_args EXCEPT ![t] = RouteArgs(request[t].path)]
    /\ Goto(t, IF Route(request[t].path) \in Validated THEN "validate" ELSE "handler")
    /\ UNCHANGED <<error, response, rendered, log, cfg, contributors_list, config,
                   request, validated, cacheVars>>
    /\ NavIdle

\* a condition raised before a view function is called: a malformed
\* request (400), an upstream gateway failure (502)
RaiseBeforeRouting(t) ==
    /\ pc[t] = "dispatch"
    /\ \E code \in {400, 502} : Abort(t, code)
    /\ Frame(<<endpoint, view_args, rendered, log, cfg, contributors_list, config>>)
    /\ NavIdle

ResolvedLang(req) ==
    IF req.accept_language \in SupportedLangs THEN req.accept_language ELSE DefaultLang

OutlineSlugs(year) ==
    {c.slug : c \in Range(Flatten(config[year].outline))}

\* the validate decorator of validate.py, as section 4.1 of the
\* specification describes it
validate(t) ==
    LET lang == view_args[t].lang
        year == view_args[t].year
        chapter == view_args[t].chapter
    IN
    /\ pc[t] = "validate"
    /\ validated' = [validated EXCEPT ![t] = <<lang>>]
    /\ IF year # NoArg /\ year \notin SupportedYears
       THEN /\ Abort(t, 404)
            /\ UNCHANGED view_args
       ELSE IF lang = NoArg
       THEN /\ view_args' = [view_args EXCEPT ![t].lang = ResolvedLang(request[t])]
            /\ Goto(t, "handler")
            /\ UNCHANGED <<error, response>>
       ELSE IF lang \notin SupportedLangs
       THEN \E substitute \in BOOLEAN :
              IF substitute
              THEN /\ Respond(t, redirect([request[t].path EXCEPT ![1] = ResolvedLang(request[t])], 302))
                   /\ UNCHANGED view_args
              ELSE /\ Abort(t, 404)
                   /\ UNCHANGED view_args
       ELSE IF endpoint[t] = "chapter" /\ chapter[1] \notin OutlineSlugs(year)
       THEN /\ Abort(t, 404)
            /\ UNCHANGED view_args
       ELSE IF endpoint[t] = "chapter" /\ Last(chapter) = ""
       THEN /\ \E code \in {301, 302} :
                 Respond(t, redirect(<<lang, year, chapter[1]>>, code))
            /\ UNCHANGED view_args
       ELSE /\ Goto(t, "handler")
            /\ UNCHANGED <<view_args, error, response>>
    /\ UNCHANGED <<endpoint, rendered, log, cfg, contributors_list, config, request, cacheVars>>
    /\ NavIdle

\* ------------------------------------------------------------------------
\* The view functions
\* ------------------------------------------------------------------------
At(t, name) == pc[t] = "handler" /\ endpoint[t] = name

ConfigContext(year) ==
    [NoContext EXCEPT !.contributors = config[year].contributors]

\* home, lines 29-33
home(t) ==
    /\ At(t, "home")
    /\ cfg' = [cfg EXCEPT ![t] = get_config(view_args[t].year)]
    /\ render_template(t, <<view_args[t].lang, view_args[t].year, "index.html">>,
                       ConfigContext(get_config(view_args[t].year)), << >>)
    /\ Frame(<<endpoint, view_args, log, contributors_list, config>>)
    /\ NavIdle

\* lang_only, lines 35-38
lang_only(t) ==
    /\ At(t, "lang_only")
    /\ Respond(t, redirect(url_for_home(view_args[t].lang, DEFAULT_YEAR), 302))
    /\ Frame(<<endpoint, view_args, rendered, log, cfg, contributors_list, config>>)
    /\ NavIdle

\* root without line 44
root_no_vary(t) ==
    /\ At(t, "root")
    /\ Respond(t, redirect(url_for_home(view_args[t].lang, DEFAULT_YEAR), 302))
    /\ Frame(<<endpoint, view_args, rendered, log, cfg, contributors_list, config>>)
    /\ NavIdle

\* root, lines 40-45
root(t) ==
    /\ At(t, "root")
    /\ LET r == redirect(url_for_home(view_args[t].lang, DEFAULT_YEAR), 302)
       IN  Respond(t, [r EXCEPT !.headers = SetHeader(@, "Vary", <<"Accept-Language">>)])
    /\ Frame(<<endpoint, view_args, rendered, log, cfg, contributors_list, config>>)
    /\ NavIdle

\* table_of_contents, lines 47-51
table_of_contents(t) ==
    /\ At(t, "table_of_contents")
    /\ cfg' = [cfg EXCEPT ![t] = get_config(view_args[t].year)]
    /\ render_template(t, <<view_args[t].lang, view_args[t].year, "table_of_contents.html">>,
                       ConfigContext(get_config(view_args[t].year)), << >>)
    /\ Frame(<<endpoint, view_args, log, contributors_list, config>>)
    /\ NavIdle

\* the orders random.shuffle can leave a list in
Shuffles(list) ==
    {[i \in DOMAIN list |-> list[p[i]]] :
        p \in {q \in [DOMAIN list -> DOMAIN list] : \A i, j \in DOMAIN list : q[i] = q[j] => i = j}}

\* contributors, line 56: config = get_config(year)
contributors_l56(t) ==
    /\ At(t, "contributors")
    /\ cfg' = [cfg EXCEPT ![t] = get_config(view_args[t].year)]
    /\ Goto(t, "contributors_l57")
    /\ Frame(<<endpoint, view_args, error, response, rendered, log, contributors_list, config>>)
    /\ NavIdle

\* contributors, line 57: contributors_list = list(config["contributors"].items())
contributors_l57(t) ==
    /\ pc[t] = "contributors_l57"
    /\ contributors_list' = [contributors_list EXCEPT ![t] = config[cfg[t]].contributors]
    /\ Goto(t, "contributors_l58")
    /\ Frame(<<endpoint, view_args, error, response, rendered, log, cfg, config>>)
    /\ NavIdle

\* contributors, line 58: random.shuffle(contributors_list)
contributors_l58(t) ==
    /\ pc[t] = "contributors_l58"
    /\ \E shuffled \in Shuffles(contributors_list[t]) :
          contributors_list' = [contributors_list EXCEPT ![t] = shuffled]
    /\ Goto(t, "contributors_l59")
    /\ Frame(<<endpoint, view_args, error, response, rendered, log, cfg, config>>)
    /\ NavIdle

\* contributors, line 59: config["contributors"] = dict(contributors_list)
contributors_l59(t) ==
    /\ pc[t] = "contributors_l59"
    /\ config' = [config EXCEPT ![cfg[t]].contributors = contributors_list[t]]
    /\ Goto(t, "contributors_l60")
    /\ Frame(<<endpoint, view_args, error, response, rendered, log, cfg, contributors_list>>)
    /\ NavIdle

\* contributors, line 60
contributors_l60(t) ==
    /\ pc[t] = "contributors_l60"
    /\ render_template(t, <<view_args[t].lang, view_args[t].year, "contributors.html">>,
                       ConfigContext(cfg[t]), << >>)
    /\ Frame(<<endpoint, view_args, log, cfg, contributors_list, config>>)
    /\ NavIdle

\* methodology, lines 62-65
methodology(t) ==
    /\ At(t, "methodology")
    /\ render_template(t, <<view_args[t].lang, view_args[t].year, "methodology.html">>,
                       NoContext, << >>)
    /\ Frame(<<endpoint, view_args, log, cfg, contributors_list, config>>)
    /\ NavIdle

\* accessibility_statement returning redirect(...) without ", 301"
accessibility_statement_302(t) ==
    /\ At(t, "accessibility_statement")
    /\ IF Last(request[t].path) = ""
       THEN /\ Respond(t, redirect(<<view_args[t].lang, "accessibility-statement">>, 302))
            /\ UNCHANGED rendered
       ELSE render_template(t, <<view_args[t].lang, "2019", "accessibility_statement.html">>,
                            NoContext, << >>)
    /\ Frame(<<endpoint, view_args, log, cfg, contributors_list, config>>)
    /\ NavIdle

\* accessibility_statement, lines 70-76; request.base_url ends in "/" when
\* the path does
accessibility_statement(t) ==
    /\ At(t, "accessibility_statement")
    /\ IF Last(request[t].path) = ""
       THEN /\ Respond(t, redirect(<<view_args[t].lang, "accessibility-statement">>, 301))
            /\ UNCHANGED rendered
       ELSE render_template(t, <<view_args[t].lang, "2019", "accessibility_statement.html">>,
                            NoContext, << >>)
    /\ Frame(<<endpoint, view_args, log, cfg, contributors_list, config>>)
    /\ NavIdle

\* sitemap, lines 78-96
sitemap(t) ==
    /\ At(t, "sitemap")
    /\ render_template(t, <<"sitemap.xml">>, NoContext, <<<<"Content-Type", <<"text/xml">>>>>>)
    /\ Frame(<<endpoint, view_args, log, cfg, contributors_list, config>>)
    /\ NavIdle

\* chapter, line 103 and the call of get_chapter_nextprev in line 104
chapter_l103(t) ==
    /\ At(t, "chapter")
    /\ nav_pc \in {"idle", "done"}
    /\ cfg' = [cfg EXCEPT ![t] = get_config(view_args[t].year)]
    /\ NavStart(config[get_config(view_args[t].year)].outline, view_args[t].chapter[1])
    /\ Goto(t, "chapter_l104")
    /\ Frame(<<endpoint, view_args, error, response, rendered, log, contributors_list, config>>)

\* chapter, lines 104-106: get_chapter_nextprev has returned
chapter_l105(t) ==
    /\ pc[t] = "chapter_l104"
    /\ nav_pc = "done"
    /\ render_template(t, <<view_args[t].lang, view_args[t].year, "chapters", view_args[t].chapter[1]>>,
                       [ConfigContext(cfg[t]) EXCEPT !.prev_chapter = prev_chapter,
                                                     !.next_chapter = next_chapter],
                       << >>)
    /\ Frame(<<endpoint, view_args, log, cfg, contributors_list, config>>)
    /\ NavIdle

\* send_from_directory of the framework: the file with the framework's
\* cache headers (or none), a 304 to a conditional request, or NotFound
send_from_directory(t, file) ==
    \E status \in {200, 304, 404}, preset \in BOOLEAN :
        IF status = 404
        THEN Abort(t, 404)
        ELSE Respond(t, [status_code |-> status,
                         headers |-> IF preset
                                     THEN <<<<"Cache-Control", <<"public", "max-age=43200">>>>>>
                                     ELSE << >>,
                         body |-> file])

\* static_from_root, lines 127-129
static_from_root(t) ==
    /\ At(t, "static_from_root")
    /\ send_from_directory(t, request[t].path)
    /\ Frame(<<endpoint, view_args, rendered, log, cfg, contributors_list, config>>)
    /\ NavIdle

\* default_favicon, lines 131-133
default_favicon(t) ==
    /\ At(t, "default_favicon")
    /\ send_from_directory(t, <<"images", "favicon.ico">>)
    /\ Frame(<<endpoint, view_args, rendered, log, cfg, contributors_list, config>>)
    /\ NavIdle

\* sorted(items, key=name): Python's sort is stable
RECURSIVE InsertByName(_, _)
InsertByName(sorted, id) ==
    IF sorted = << >> THEN <<id>>
    ELSE IF ContributorName(Head(sorted)) <= ContributorName(id)
         THEN <<Head(sorted)>> \o InsertByName(Tail(sorted), id)
         ELSE <<id>> \o sorted

RECURSIVE SortedByName(_)
SortedByName(list) ==
    IF list = << >> THEN << >>
    ELSE InsertByName(SortedByName(SubSeq(list, 1, Len(list) - 1)), list[Len(list)])

\* ebook, line 138
ebook_l138(t) ==
    /\ At(t, "ebook")
    /\ cfg' = [cfg EXCEPT ![t] = get_config(view_args[t].year)]
    /\ Goto(t, "ebook_l139")
    /\ Frame(<<endpoint, view_args, error, response, rendered, log, contributors_list, config>>)
    /\ NavIdle

\* ebook, line 139: sorted_contributors = sorted(config["contributors"].items(), key=name)
ebook_l139(t) ==
    /\ pc[t] = "ebook_l139"
    /\ contributors_list' = [contributors_list EXCEPT ![t] = SortedByName(config[cfg[t]].contributors)]
    /\ Goto(t, "ebook_l140")
    /\ Frame(<<endpoint, view_args, error, response, rendered, log, cfg, config>>)
    /\ NavIdle

\* ebook, line 140: config["contributors"] = dict(sorted_contributors)
ebook_l140(t) ==
    /\ pc[t] = "ebook_l140"
    /\ config' = [config EXCEPT ![cfg[t]].contributors = contributors_list[t]]
    /\ Goto(t, "ebook_l141")
    /\ Frame(<<endpoint, view_args, error, response, rendered, log, cfg, contributors_list>>)
    /\ NavIdle

\* ebook, line 141
ebook_l141(t) ==
    /\ pc[t] = "ebook_l141"
    /\ render_template(t, <<view_args[t].lang, view_args[t].year, "ebook.html">>,
                       ConfigContext(cfg[t]), << >>)
    /\ Frame(<<endpoint, view_args, log, cfg, contributors_list, config>>)
    /\ NavIdle

\* redirect_old_images, lines 143-146
redirect_old_images(t) ==
    /\ At(t, "redirect_old_images")
    /\ Respond(t, redirect(<<"static", "images", "2019",
                             convert_old_image_path(request[t].path[4]), request[t].path[5]>>, 301))
    /\ Frame(<<endpoint, view_args, rendered, log, cfg, contributors_list, config>>)
    /\ NavIdle

\* catch_all, lines 148-152
catch_all(t) ==
    /\ At(t, "catch_all")
    /\ Abort(t, 404)
    /\ Frame(<<endpoint, view_args, rendered, log, cfg, contributors_list, config>>)
    /\ NavIdle

\* ------------------------------------------------------------------------
\* The error handlers, lines 154-171
\* ------------------------------------------------------------------------
ErrorResponse(t, code) ==
    /\ pc[t] = "error"
    /\ error[t] = code
    /\ response' = [response EXCEPT ![t] = render_error_template(code)]
    /\ rendered' = [rendered EXCEPT ![t] = Append(@, [template |-> <<"error.html">>,
                                                      context |-> NoContext])]
    /\ Goto(t, "after_request")
    /\ UNCHANGED error

LogException(t, what) ==
    log' = [log EXCEPT ![t] = Append(@, [message |-> what, path |-> request[t].path])]

bad_request(t) ==
    /\ ErrorResponse(t, 400)
    /\ LogException(t, "bad request error")
    /\ Frame(<<endpoint, view_args, cfg, contributors_list, config>>)
    /\ NavIdle

page_not_found(t) ==
    /\ ErrorResponse(t, 404)
    /\ Frame(<<endpoint, view_args, log, cfg, contributors_list, config>>)
    /\ NavIdle

handle_internal_server_error(t) ==
    /\ ErrorResponse(t, 500)
    /\ LogException(t, "internal server error")
    /\ Frame(<<endpoint, view_args, cfg, contributors_list, config>>)
    /\ NavIdle

handle_bad_gateway(t) ==
    /\ ErrorResponse(t, 502)
    /\ LogException(t, "bad gateway")
    /\ Frame(<<endpoint, view_args, cfg, contributors_list, config>>)
    /\ NavIdle

\* app.after_request: add_header is applied to the response on its way out
after_request(t) ==
    /\ pc[t] = "after_request"
    /\ response' = [response EXCEPT ![t] = add_header(response[t])]
    /\ Goto(t, "sent")
    /\ Frame(<<endpoint, view_args, error, rendered, log, cfg, contributors_list, config>>)
    /\ NavIdle

\* ------------------------------------------------------------------------
\* Specifications
\* ------------------------------------------------------------------------
IdleNav ==
    /\ outline = << >>
    /\ chapter_slug = NoArg
    /\ prev_chapter = None
    /\ next_chapter = None
    /\ found = FALSE
    /\ part_i = 1
    /\ chapter_i = 1
    /\ nav_pc = "idle"
    /\ visited = {}

IdleCache ==
    /\ resp_in = NoResponse
    /\ resp_once = NoResponse
    /\ resp_twice = NoResponse
    /\ cache_pc = "idle"

IdleRequests ==
    /\ request = [t \in Threads |-> NoRequest]
    /\ endpoint = [t \in Threads |-> NoArg]
    /\ view_args = [t \in Threads |-> NoViewArgs]
    /\ pc = [t \in Threads |-> "idle"]
    /\ error = [t \in Threads |-> 0]
    /\ response = [t \in Threads |-> NoResponse]
    /\ rendered = [t \in Threads |-> << >>]
    /\ log = [t \in Threads |-> << >>]
    /\ cfg = [t \in Threads |-> NoArg]
    /\ contributors_list = [t \in Threads |-> << >>]
    /\ validated = [t \in Threads |-> None]
    /\ config = Config0

\* one request travels through the application
Init ==
    /\ IdleNav
    /\ IdleCache
    /\ \E r \in Requests :
          request = [t \in Threads |-> IF t = 1 THEN r ELSE NoRequest]
    /\ endpoint = [t \in Threads |-> NoArg]
    /\ view_args = [t \in Threads |-> NoViewArgs]
    /\ pc = [t \in Threads |-> IF t = 1 THEN "dispatch" ELSE "idle"]
    /\ error = [t \in Threads |-> 0]
    /\ response = [t \in Threads |-> NoResponse]
    /\ rendered = [t \in Threads |-> << >>]
    /\ log = [t \in Threads |-> << >>]
    /\ cfg = [t \in Threads |-> NoArg]
    /\ contributors_list = [t \in Threads |-> << >>]
    /\ validated = [t \in Threads |-> None]
    /\ config = Config0

Next ==
    \/ \E t \in Threads : Dispatch(t)
    \/ \E t \in Threads : RaiseBeforeRouting(t)
    \/ \E t \in Threads : validate(t)
    \/ \E t \in Threads : home(t)
    \/ \E t \in Threads : lang_only(t)
    \/ \E t \in Threads : root(t)
    \/ \E t \in Threads : table_of_contents(t)
    \/ \E t \in Threads : contributors_l56(t)
    \/ \E t \in Threads : contributors_l57(t)
    \/ \E t \in Threads : contributors_l58(t)
    \/ \E t \in Threads : contributors_l59(t)
    \/ \E t \in Threads : contributors_l60(t)
    \/ \E t \in Threads : methodology(t)
    \/ \E t \in Threads : accessibility_statement(t)
    \/ \E t \in Threads : sitemap(t)
    \/ \E t \in Threads : chapter_l103(t)
    \/ NavNext
    \/ NavMatch
    \/ NavPrev
    \/ NavSkip
    \/ NavInnerEnd
    \/ NavAfterInner
    \/ \E t \in Threads : chapter_l105(t)
    \/ \E t \in Threads : static_from_root(t)
    \/ \E t \in Threads : default_favicon(t)
    \/ \E t \in Threads : ebook_l138(t)
    \/ \E t \in Threads : ebook_l139(t)
    \/ \E t \in Threads : ebook_l140(t)
    \/ \E t \in Threads : ebook_l141(t)
    \/ \E t \in Threads : redirect_old_images(t)
    \/ \E t \in Threads : catch_all(t)
    \/ \E t \in Threads : bad_request(t)
    \/ \E t \in Threads : page_not_found(t)
    \/ \E t \in Threads : handle_internal_server_error(t)
    \/ \E t \in Threads : handle_bad_gateway(t)
    \/ \E t \in Threads : after_request(t)

Spec == Init /\ [][Next]_vars

\* The outlines range over every assignment of slugs to chapters, so the
\* target slugs need one slug that chapters can carry and one that none does:
\* any other target is this one under a renaming of the slugs.
TargetSlugs == {SlugNames[1], AbsentSlug}

\* get_chapter_nextprev on every outline and target slug within the bounds
InitNav ==
    /\ \E n \in 0..MaxChapters, k \in 0..MaxParts :
          \E flat \in [1..n -> Chapters], cuts \in [1..k -> 0..n] :
              /\ IsCutting(cuts, n)
              /\ outline = OutlineOf(flat, cuts)
    /\ chapter_slug \in TargetSlugs
    /\ prev_chapter = None
    /\ next_chapter = None
    /\ found = FALSE
    /\ part_i = 1
    /\ chapter_i = 1
    /\ nav_pc = (IF Len(outline) >= 1 THEN "inner" ELSE "done")
    /\ visited = {}
    /\ IdleCache
    /\ IdleRequests

NextNav ==
    \/ NavNext
    \/ NavMatch
    \/ NavPrev
    \/ NavSkip
    \/ NavInnerEnd
    \/ NavAfterInner

SpecNav == InitNav /\ [][NextNav]_vars

\* add_header on every response within the bounds, applied once and twice
InitCache ==
    /\ IdleNav
    /\ IdleRequests
    /\ resp_in \in Responses
    /\ resp_once = NoResponse
    /\ resp_twice = NoResponse
    /\ cache_pc = "start"

NextCache ==
    \/ ApplyOnce
    \/ ApplyTwice

SpecCache == InitCache /\ [][NextCache]_vars

\* concurrent requests for the contributors and ebook pages, each past the
\* validate decorator, served from the same Configuration objects
ConcEndpoints == {"contributors", "ebook"}

ConcPage(ep) == IF ep = "contributors" THEN "contributors" ELSE "ebook"

InitConc ==
    /\ IdleNav
    /\ IdleCache
    /\ endpoint \in [Threads -> ConcEndpoints]
    /\ \E years \in [Threads -> SupportedYears] :
          /\ view_args = [t \in Threads |->
                            [lang |-> "en", year |-> years[t], chapter |-> << >>]]
          /\ request = [t \in Threads |->
                            [path |-> <<"en", years[t], ConcPage(endpoint[t])>>,
                             accept_language |-> NoArg]]
    /\ pc = [t \in Threads |-> "handler"]
    /\ error = [t \in Threads |-> 0]
    /\ response = [t \in Threads |-> NoResponse]
    /\ rendered = [t \in Threads |-> << >>]
    /\ log = [t \in Threads |-> << >>]
    /\ cfg = [t \in Threads |-> NoArg]
    /\ contributors_list = [t \in Threads |-> << >>]
    /\ validated = [t \in Threads |-> <<"en">>]
    /\ config = Config0

NextConc ==
    \/ \E t \in Threads : contributors_l56(t)
    \/ \E t \in Threads : contributors_l57(t)
    \/ \E t \in Threads : contributors_l58(t)
    \/ \E t \in Threads : contributors_l59(t)
    \/ \E t \in Threads : contributors_l60(t)
    \/ \E t \in Threads : ebook_l138(t)
    \/ \E t \in Threads : ebook_l139(t)
    \/ \E t \in Threads : ebook_l140(t)
    \/ \E t \in Threads : ebook_l141(t)
    \/ \E t \in Threads : handle_internal_server_error(t)
    \/ \E t \in Threads : after_request(t)

SpecConc == InitConc /\ [][NextConc]_vars

\* ------------------------------------------------------------------------
\* Properties of get_chapter_nextprev (checked under SpecNav)
\* ------------------------------------------------------------------------
FlatOutline == Flatten(outline)

NotTodo(c) == ~c.todo

\* the chapters of the outline that are not todo, in outline order
Navigable == SelectSeq(FlatOutline, NotTodo)

UniqueSlugs ==
    \A i, j \in DOMAIN FlatOutline : FlatOutline[i].slug = FlatOutline[j].slug => i = j

TargetNavigable == \E i \in DOMAIN Navigable : Navigable[i].slug = chapter_slug

TargetIndex == CHOOSE i \in DOMAIN Navigable : Navigable[i].slug = chapter_slug

AllPositions == UNION {{<<p, c>> : c \in DOMAIN outline[p]} : p \in DOMAIN outline}

\* C1: when the slugs of the outline are unique and the target slug is
\* carried by a non-todo chapter C, the walk returns as previous the nearest
\* non-todo chapter before C in the flattened outline (none if there is
\* none) and as next the nearest non-todo chapter after C (none if there is
\* none), across Parts and across todo chapters.
C1_NearestNeighbours ==
    (nav_pc = "done" /\ UniqueSlugs /\ TargetNavigable) =>
        /\ prev_chapter = IF TargetIndex = 1 THEN None ELSE Some(Navigable[TargetIndex - 1])
        /\ next_chapter = IF TargetIndex = Len(Navigable) THEN None
                          ELSE Some(Navigable[TargetIndex + 1])

\* the walk returned the chapter of a later Part, past a todo chapter
C1_Witness ==
    /\ nav_pc = "done"
    /\ outline = << <<[slug |-> "a", todo |-> FALSE], [slug |-> "b", todo |-> TRUE]>>,
                    <<[slug |-> "c", todo |-> FALSE]>> >>
    /\ chapter_slug = "a"
    /\ prev_chapter = None
    /\ next_chapter = Some([slug |-> "c", todo |-> FALSE])

\* C2: in every state of the walk and in its result, neither prev_chapter
\* nor next_chapter is a chapter marked todo, whatever the outline and the
\* target slug.
C2_NeverTodo ==
    /\ prev_chapter # None => ~prev_chapter[1].todo
    /\ next_chapter # None => ~next_chapter[1].todo

\* the walk matched the target, passed a todo chapter and returned a next
C2_Witness ==
    /\ nav_pc = "done"
    /\ found
    /\ \E pos \in visited : outline[pos[1]][pos[2]].todo
    /\ next_chapter # None

\* C3: when no non-todo chapter carries the target slug, found is never set
\* and next_chapter stays None.
C3_AbsentTargetNoNext ==
    (found \/ next_chapter # None) => TargetNavigable

\* the walk ended on an outline where only a todo chapter has the target slug
C3_Witness ==
    /\ nav_pc = "done"
    /\ ~TargetNavigable
    /\ \E i \in DOMAIN FlatOutline : FlatOutline[i].slug = chapter_slug /\ FlatOutline[i].todo
    /\ Len(Navigable) >= 1
    /\ next_chapter = None

\* C10: when the target slug never matches a non-todo chapter, the walk
\* examines every chapter of every Part and returns the last non-todo chapter
\* of the flattened outline as previous (None when there is none) and None
\* as next.
C10_FullScanLastSeen ==
    (nav_pc = "done" /\ ~TargetNavigable) =>
        /\ visited = AllPositions
        /\ part_i = Len(outline) + 1
        /\ prev_chapter = IF Navigable = << >> THEN None ELSE Some(Navigable[Len(Navigable)])
        /\ next_chapter = None

\* the walk ended without a match on an outline of several Parts with two
\* distinct candidates for previous
C10_Witness ==
    /\ nav_pc = "done"
    /\ chapter_slug = AbsentSlug
    /\ Len(outline) >= 2
    /\ Len(Navigable) >= 2
    /\ Navigable[1] # Navigable[Len(Navigable)]
    /\ prev_chapter = Some(Navigable[Len(Navigable)])

\* ------------------------------------------------------------------------
\* Properties of add_header (checked under SpecCache)
\* ------------------------------------------------------------------------
Cacheable == {"public", "max-age=10800"}
NotCacheable == {"no-store", "no-cache", "max-age=0"}

CacheControlHeaders(resp) == SelectSeq(resp.headers, LAMBDA pair : pair[1] = "Cache-Control")

\* C5: on a response without Cache-Control, add_header sets exactly public,
\* max-age=10800 when the status is 200 or 304 and exactly no-store,
\* no-cache, max-age=0 for any other status; a response that already has a
\* Cache-Control header is left unchanged whatever its status.
C5_CachePolicy ==
    cache_pc \in {"once", "twice"} =>
        IF HasHeader(resp_in.headers, "Cache-Control")
        THEN resp_once = resp_in
        ELSE /\ resp_once.status_code = resp_in.status_code
             /\ Len(CacheControlHeaders(resp_once)) = 1
             /\ Range(CacheControl(resp_once)) =
                    IF resp_in.status_code \in {200, 304} THEN Cacheable ELSE NotCacheable

\* add_header has annotated a 404 response that had no Cache-Control
C5_Witness ==
    /\ cache_pc = "once"
    /\ resp_in.status_code = 404
    /\ ~HasHeader(resp_in.headers, "Cache-Control")
    /\ Range(CacheControl(resp_once)) = NotCacheable

\* C6: add_header applied twice gives the same headers as add_header applied
\* once, for every status and with or without a pre-set Cache-Control.
C6_Idempotent ==
    cache_pc = "twice" => resp_twice = resp_once

\* add_header was applied twice to a response it had to annotate
C6_Witness ==
    /\ cache_pc = "twice"
    /\ ~HasHeader(resp_in.headers, "Cache-Control")
    /\ HasHeader(resp_twice.headers, "Cache-Control")

\* ------------------------------------------------------------------------
\* Properties of the request pipeline (checked under Spec)
\* ------------------------------------------------------------------------
TrailingSlashAccessibility(t) ==
    /\ endpoint[t] = "accessibility_statement"
    /\ Last(request[t].path) = ""

Location(resp) == GetHeader(resp.headers, "Location")

\* C7 as stated: a request to /{lang}/accessibility-statement/ always ends
\* in a 301 redirect to /{lang}/accessibility-statement, for every lang,
\* supported or not.
C7_RedirectBeforeValidation ==
    \A t \in Threads :
        (pc[t] = "sent" /\ TrailingSlashAccessibility(t)) =>
            /\ response[t].status_code = 301
            /\ Location(response[t]) = <<request[t].path[1], "accessibility-statement">>

\* C7 amended: the validate decorator runs before the trailing-slash check
\* of accessibility_statement; a request to /{lang}/accessibility-statement/
\* ends in a 301 redirect to /{lang}/accessibility-statement when lang is a
\* supported language, and is answered by language validation, never by a
\* redirect to /{lang}/accessibility-statement, when lang is not supported.
C7_RedirectAfterValidation ==
    \A t \in Threads :
        /\ (TrailingSlashAccessibility(t) /\ pc[t] \in {"handler", "after_request", "sent"})
              => validated[t] = <<request[t].path[1]>>
        /\ (TrailingSlashAccessibility(t) /\ pc[t] = "sent") =>
              IF request[t].path[1] \in SupportedLangs
              THEN /\ response[t].status_code = 301
                   /\ Location(response[t]) = <<request[t].path[1], "accessibility-statement">>
              ELSE Location(response[t]) # <<request[t].path[1], "accessibility-statement">>

\* a request to /ja/accessibility-statement/ has been answered
C7_Witness ==
    \E t \in Threads :
        /\ pc[t] = "sent"
        /\ request[t].path = <<"ja", "accessibility-statement", "">>
        /\ response[t].status_code = 301
        /\ Location(response[t]) = <<"ja", "accessibility-statement">>

\* C8: a request to / is answered by a redirect to the home URL of the
\* resolved language and the default edition, the response carries
\* Vary: Accept-Language, and render_template is never called for it.
C8_RootRedirects ==
    \A t \in Threads :
        endpoint[t] = "root" =>
            /\ rendered[t] = << >>
            /\ pc[t] = "sent" =>
                  /\ response[t].status_code = 302
                  /\ Location(response[t]) = <<ResolvedLang(request[t]), DEFAULT_YEAR, "">>
                  /\ GetHeader(response[t].headers, "Vary") = <<"Accept-Language">>

\* a request to / without a language preference has been answered
C8_Witness ==
    \E t \in Threads :
        /\ pc[t] = "sent"
        /\ request[t].path = <<"">>
        /\ request[t].accept_language = NoArg
        /\ Location(response[t]) = <<DefaultLang, DEFAULT_YEAR, "">>

RedirectEndpoints == {"lang_only", "root", "accessibility_statement", "redirect_old_images"}

\* C9: every redirect of lang_only, root, accessibility_statement and
\* redirect_old_images and every response of the 400/404/500/502 handlers
\* leaves marked no-store, no-cache, max-age=0; no response with a status
\* other than 200 or 304 leaves marked public with max-age=10800.
C9_BadResponsesNotCached ==
    \A t \in Threads :
        pc[t] = "sent" =>
            /\ ((endpoint[t] \in RedirectEndpoints /\ response[t].status_code \in {301, 302})
                  \/ error[t] \in {400, 404, 500, 502})
                  => Range(CacheControl(response[t])) = NotCacheable
            /\ response[t].status_code \notin {200, 304}
                  => ~(Cacheable \subseteq Range(CacheControl(response[t])))

\* the redirect for an old image URL has left the application
C9_Witness ==
    \E t \in Threads :
        /\ pc[t] = "sent"
        /\ endpoint[t] = "redirect_old_images"
        /\ response[t].status_code = 301
        /\ Range(CacheControl(response[t])) = NotCacheable

\* ------------------------------------------------------------------------
\* Property of concurrent requests (checked under SpecConc)
\* ------------------------------------------------------------------------
\* C4: the reordering of contributors is applied to a private copy, so the
\* contributors a request hands to its template are in the order that
\* request itself arranged, never in an order another request left in the
\* shared Configuration.
C4_PrivateReordering ==
    \A t \in Threads :
        \A i \in DOMAIN rendered[t] :
            rendered[t][i].template # <<"error.html">> =>
                rendered[t][i].context.contributors = contributors_list[t]

====
